---- MODULE Spec2Model ----
(***************************************************************************)
(* nuxt-og-image, src/module.ts: the build-time screenshot pipeline set up  *)
(* in the nitro:init hook.  The prerender:generate hook fills              *)
(* screenshotQueue; captureScreenshots, called from the rollup:before and  *)
(* close hooks, drains it against a preview server and one browser.        *)
(*                                                                         *)
(* Strings are sequences of tokens (<<"/", "a">> is "/a"), so that         *)
(* includes, endsWith and the route matcher are computed, not assumed.     *)
(* The host (nitro) awaits every hook call, so a hook handler starts only  *)
(* when no captureScreenshots invocation is in flight; the order of the    *)
(* hook calls is otherwise free.                                           *)
(***************************************************************************)
EXTENDS Integers, Sequences, FiniteSets, TLC

VARIABLES
  generate,         \* nuxt.options._generate
  routeRules,       \* nitro.options.routeRules: pattern -> rule
  screenshotQueue,  \* let screenshotQueue: OgImageOptions[]
  ctx,              \* the ctx object of the prerender:generate call just made
  hook,             \* what that call did (both forgotten when a trigger fires)
  rendered,         \* number of prerender:generate calls so far
  fired,            \* the trigger hooks that have been called
  pc,               \* position of the captureScreenshots invocation in flight
  previewProcess,   \* const previewProcess = execa(...)
  host,             \* const host: the origin read from the readiness line
  browser,          \* let browser: Browser | null
  found,            \* the queue as the last invocation found it
  k,                \* for (const k in screenshotQueue)
  attempts,         \* screenshot(browser, url, ...) calls of this invocation
  reports,          \* nitro.logger.log lines of the loop, this invocation
  iter,             \* what the calls of the last loop iteration did
  createBrowserResult, \* what createBrowser() gave this invocation
  last,             \* how the last invocation ended
  tot               \* per build run: spawns, kills, launches, closes

vars == <<generate, routeRules, screenshotQueue, ctx, hook, rendered, fired, pc,
          previewProcess, host, browser, found, k, attempts, reports, iter,
          createBrowserResult, last, tot>>

hookVars == <<ctx, hook, rendered>>

captureVars ==
  <<pc, previewProcess, host, browser, found, k, attempts, reports, iter,
    createBrowserResult, last, tot>>

(***************************************************************************)
(* Bounds                                                                  *)
(***************************************************************************)
MaxPages == 3

(***************************************************************************)
(* Token strings                                                           *)
(***************************************************************************)
Includes(s, t) == \E i \in 1..Len(s) : s[i] = t

EndsWith(s, suffix) ==
  /\ Len(suffix) <= Len(s)
  /\ SubSeq(s, Len(s) - Len(suffix) + 1, Len(s)) = suffix

StartsWith(s, prefix) ==
  /\ Len(prefix) <= Len(s)
  /\ SubSeq(s, 1, Len(prefix)) = prefix

OgImageHtmlSuffix == <<"__og_image__", "/", "html">>

RouteA == <<"/", "a">>
RouteAB == <<"/", "a", "/", "b">>
RouteFile == <<"/", "a", ".", "css">>
RouteOgHtml == <<"/", "a", "/">> \o OgImageHtmlSuffix

\* 'index.html'
IndexHtml == <<"index", ".", "html">>

\* "/index.html/a": a route with the document-index name inside it
RouteIndexDir == <<"/">> \o IndexHtml \o <<"/", "a">>

Routes == {RouteA, RouteAB, RouteFile, RouteOgHtml, RouteIndexDir}

\* nitro names the output file of an implicit HTML route <route>/index.html
FileNameOf(route) == route \o <<"/">> \o IndexHtml

(***************************************************************************)
(* Option fragments: a key that is absent holds "undef"                    *)
(***************************************************************************)
Keys == {"provider", "static", "width"}

Frag(p, s, w) == [provider |-> p, static |-> s, width |-> w]

EmptyFrag == Frag("undef", "undef", "undef")

\* { ...a, ...b }: a key of b replaces the key of a
Spread(a, b) == [key \in Keys |-> IF b[key] # "undef" THEN b[key] ELSE a[key]]

Directives ==
  { Frag("browser", "true", "undef"),
    Frag("browser", "undef", "w800"),
    Frag("satori", "true", "undef") }

(***************************************************************************)
(* Markup: a sequence of tokens, at most one of them the embedded payload  *)
(***************************************************************************)
Text(t) == [kind |-> "text", text |-> t, ok |-> TRUE, opts |-> EmptyFrag]

Payload(ok, opts) == [kind |-> "og", text |-> "", ok |-> ok, opts |-> opts]

Markups ==
  { <<>>, <<Text("p")>>, <<Text("p"), Payload(FALSE, EmptyFrag)>> }
    \cup { <<Text("p"), Payload(TRUE, d), Text("q")>> : d \in Directives }

HasPayload(html) == \E i \in 1..Len(html) : html[i].kind = "og"

FirstPayload(html) ==
  html[CHOOSE i \in 1..Len(html) :
         /\ html[i].kind = "og"
         /\ \A j \in 1..(i - 1) : html[j].kind # "og"]

\* extractOgImageOptions throws on a malformed payload
ExtractThrows(html) == HasPayload(html) /\ ~FirstPayload(html).ok

\* extractOgImageOptions: the parsed payload, or nothing
extractOgImageOptions(html) ==
  IF HasPayload(html)
    THEN [some |-> TRUE, opts |-> FirstPayload(html).opts]
    ELSE [some |-> FALSE, opts |-> EmptyFrag]

\* stripOgImageOptions: the markup without the payload
stripOgImageOptions(html) == SelectSeq(html, LAMBDA t : t.kind # "og")

(***************************************************************************)
(* Route rules: toRouteMatcher(createRadixRouter({ routes })) and defu     *)
(***************************************************************************)
Wild(key) == [kind |-> "wild", key |-> key]

Static(key) == [kind |-> "static", key |-> key]

\* "/**", "/a/**" and "/a/b", in the order the matcher visits them:
\* wildcards by ascending key length, then the static match
PatternOrder == <<Wild(<<>>), Wild(RouteA), Static(RouteAB)>>

Patterns == {PatternOrder[i] : i \in 1..Len(PatternOrder)}

NoOg == [og |-> "absent", frag |-> EmptyFrag]

OgFalse == [og |-> "false", frag |-> EmptyFrag]

OgFrag(f) == [og |-> "frag", frag |-> f]

Rules(all, a, ab) ==
  [pat \in Patterns |->
     IF pat = PatternOrder[1] THEN all ELSE IF pat = PatternOrder[2] THEN a ELSE ab]

\* the routeRules configurations of the runs
RuleTables ==
  { Rules(NoOg, NoOg, NoOg),
    Rules(NoOg, OgFalse, OgFrag(Frag("browser", "undef", "undef"))),
    Rules(OgFrag(Frag("undef", "true", "w600")), NoOg, OgFalse),
    Rules(OgFrag(Frag("undef", "true", "w600")), OgFrag(Frag("browser", "undef", "undef")), NoOg) }

PatternMatches(pat, route) ==
  IF pat.kind = "wild" THEN StartsWith(route, pat.key) ELSE route = pat.key

\* matchAll(route): the rules of the matching patterns, general first
matchAll(rules, route) ==
  LET hit == SelectSeq(PatternOrder, LAMBDA pat : PatternMatches(pat, route))
  IN  [i \in 1..Len(hit) |-> rules[hit[i]]]

ReverseMissing(s) == s

Reverse(s) == [i \in 1..Len(s) |-> s[Len(s) + 1 - i]]

\* _defu(base, defaults) on the ogImage key: base wins where it is defined,
\* two objects merge key by key, false is a defined value
Defu2(base, defaults) ==
  IF base.og = "absent" THEN defaults
  ELSE IF base.og = "frag" /\ defaults.og = "frag"
    THEN OgFrag(Spread(defaults.frag, base.frag))
  ELSE base

RECURSIVE DefuFrom(_, _, _)
DefuFrom(acc, list, i) ==
  IF i > Len(list) THEN acc ELSE DefuFrom(Defu2(acc, list[i]), list, i + 1)

\* defu({}, ...list)
defu(list) == DefuFrom(NoOg, list, 1)

\* line 280: the merged route rules of a route
MergedRules(rules, route) == defu(Reverse(matchAll(rules, route)))

(***************************************************************************)
(* The prerender:generate hook                                             *)
(***************************************************************************)
NoCtx == [route |-> <<>>, contents |-> <<>>, fileName |-> <<>>]

NoHook == [outcome |-> "none", html |-> <<>>, some |-> FALSE, og |-> "absent"]

SkipRouteFilesOnly(route) == Includes(route, ".")

\* line 269: files and the og:image route itself are not scanned
SkipRoute(route) == Includes(route, ".") \/ EndsWith(route, OgImageHtmlSuffix)

DroppedIgnoringRules(extracted, rule) == ~extracted.some

DroppedOnlyByRules(extracted, rule) == rule.og = "false"

\* line 281: nothing extracted, or the route rules switch the image off
Dropped(extracted, rule) == ~extracted.some \/ rule.og = "false"

OptionsDirectiveWins(c, extracted, rule) ==
  LET o == Spread(IF rule.og = "frag" THEN rule.frag ELSE EmptyFrag, extracted.opts)
  IN  [path |-> c.route, provider |-> o.provider, static |-> o.static,
       width |-> o.width, ctx |-> c]

\* lines 284-289: { path, ...extractedOptions, ...(routeRules.ogImage || {}), ctx }
Options(c, extracted, rule) ==
  LET o == Spread(extracted.opts, IF rule.og = "frag" THEN rule.frag ELSE EmptyFrag)
  IN  [path |-> c.route, provider |-> o.provider, static |-> o.static,
       width |-> o.width, ctx |-> c]

QualifiesAnyProvider(gen, options) == gen \/ options.static = "true"

\* line 292
Qualifies(gen, options) ==
  (gen \/ options.static = "true") /\ options.provider = "browser"

ContentsAfterCleared(html) == <<>>

\* line 279: ctx.contents = stripOgImageOptions(html)
ContentsAfter(html) == stripOgImageOptions(html)

HookOutcomeSwallowingParseError(route, html, rule, gen) ==
  LET extracted == extractOgImageOptions(html)
      options == Options(NoCtx, extracted, rule)
  IN  IF SkipRoute(route) THEN "skipped"
      ELSE IF html = <<>> THEN "nohtml"
      ELSE IF ExtractThrows(html) \/ Dropped(extracted, rule) THEN "dropped"
      ELSE IF ~Qualifies(gen, options) THEN "notqueued"
      ELSE "queued"

\* lines 269-293 in statement order: where the handler stops.  The throw of
\* extractOgImageOptions (line 278) is not caught, and comes before line 279
HookOutcome(route, html, rule, gen) ==
  LET extracted == extractOgImageOptions(html)
      options == Options(NoCtx, extracted, rule)
  IN  IF SkipRoute(route) THEN "skipped"
      ELSE IF html = <<>> THEN "nohtml"
      ELSE IF ExtractThrows(html) THEN "threw"
      ELSE IF Dropped(extracted, rule) THEN "dropped"
      ELSE IF ~Qualifies(gen, options) THEN "notqueued"
      ELSE "queued"

\* the record of the last captureScreenshots invocation is kept until the
\* next hook call
ForgetCapture ==
  /\ found' = <<>>
  /\ k' = 0
  /\ attempts' = <<>>
  /\ reports' = <<>>
  /\ iter' = [screenshot |-> "none", mkdirp |-> "none", writeFile |-> "none"]
  /\ createBrowserResult' = "none"
  /\ host' = <<>>

PrerenderGenerate(route, html) ==
  LET c0 == [route |-> route, contents |-> html, fileName |-> FileNameOf(route)]
      extracted == extractOgImageOptions(html)
      c1 == [c0 EXCEPT !.contents = ContentsAfter(html)]
      rule == MergedRules(routeRules, route)
      options == Options(c1, extracted, rule)
      Return(c, outcome, some, og) ==
        /\ ctx' = c
        /\ hook' = [outcome |-> outcome, html |-> html, some |-> some, og |-> og]
        /\ UNCHANGED screenshotQueue
  IN
  /\ pc = "idle"
  /\ rendered < MaxPages
  /\ rendered' = rendered + 1
  /\ LET outcome == HookOutcome(route, html, rule, generate) IN
     IF outcome \in {"skipped", "nohtml", "threw"}
       THEN Return(c0, outcome, FALSE, "absent")
     ELSE IF outcome \in {"dropped", "notqueued"}
       THEN Return(c1, outcome, extracted.some, rule.og)
     ELSE /\ ctx' = c1
          /\ hook' = [outcome |-> "queued", html |-> html, some |-> TRUE, og |-> rule.og]
          /\ screenshotQueue' = Append(screenshotQueue, options)
  /\ ForgetCapture
  /\ UNCHANGED <<generate, routeRules, fired, pc, previewProcess, browser, last, tot>>

Prerender == \E route \in Routes, html \in Markups : PrerenderGenerate(route, html)

(***************************************************************************)
(* captureScreenshots                                                      *)
(***************************************************************************)
PublicDir == <<"dist">>

WithoutLeadingSlash(s) == IF s # <<>> /\ s[1] = "/" THEN Tail(s) ELSE s

WithTrailingSlash(s) == IF s # <<>> /\ s[Len(s)] = "/" THEN s ELSE s \o <<"/">>

\* ufo joinURL(base, input)
joinURL(base, input) ==
  IF base = <<>> \/ base = <<"/">> THEN input
  ELSE WithTrailingSlash(base) \o WithoutLeadingSlash(input)

\* t occurs in s at position n
OccursAt(s, t, n) == n + Len(t) - 1 <= Len(s) /\ SubSeq(s, n, n + Len(t) - 1) = t

RemoveNone(s, t) == s

\* String.prototype.replace(t, ''): the first occurrence goes
RemoveFirst(s, t) ==
  IF \A n \in 1..Len(s) : ~OccursAt(s, t, n) THEN s
  ELSE LET i == CHOOSE n \in 1..Len(s) :
                  OccursAt(s, t, n) /\ \A j \in 1..(n - 1) : ~OccursAt(s, t, j)
       IN  SubSeq(s, 1, i - 1) \o SubSeq(s, i + Len(t), Len(s))

\* line 323
Dirname(entry) ==
  joinURL(PublicDir, RemoveFirst(entry.ctx.fileName, IndexHtml) \o <<"__og_image__", "/">>)

\* line 324
Filename(entry) == joinURL(Dirname(entry), <<"/", "og.png">>)

\* the origin read from the "Accepting connections at" line
Host == <<"http://localhost:3000">>

\* lines 61-65: config.defaults
Defaults == Frag("undef", "undef", "w1200")

\* lines 327-328: { ...config.defaults, ...entry }
ScreenshotOptions(entry) ==
  Spread(Defaults, Frag(entry.provider, entry.static, entry.width))

QueueCheckMissing(q) == FALSE

\* line 300
QueueIsEmpty(q) == Len(q) = 0

EntryAtReversed(q, key) == q[Len(q) + 1 - key]

\* line 320: const entry = screenshotQueue[k]
EntryAt(q, key) == q[key]

HasErrorCountingMkdirp(shot, mkdir, write) ==
  shot = "throw" \/ (shot = "ok" /\ (mkdir = "throw" \/ write = "throw"))

\* lines 325-339: the inner try/catch; mkdirp has its own empty catch
HasError(shot, mkdir, write) == shot = "throw" \/ (shot = "ok" /\ write = "throw")

BrowserNullUnchecked(result) == result \in {"session", "null"}

\* line 317: if (browser)
BrowserLaunched(result) == result = "session"

\* lines 353-356: previewProcess.kill() runs unless browser.close() threw
KillReached(b, closeOutcome) == ~(b = "open" /\ closeOutcome = "throw")

AfterKeyAbortOnError(q, key, hasError) ==
  IF hasError \/ key >= Len(q) THEN "finally" ELSE "loop"

\* lines 319 and 336-344: the catch is inside the loop, so the for-in goes on
\* to the next key whether or not the iteration had an error
AfterKey(q, key, hasError) == IF key >= Len(q) THEN "finally" ELSE "loop"

AfterSpawnNoWait == "launch"

\* lines 308-315: the invocation awaits the readiness promise before anything else
AfterSpawn == "wait"

NoIter == [screenshot |-> "none", mkdirp |-> "none", writeFile |-> "none"]

Bump(t, field) == [t EXCEPT ![field] = @ + 1]

\* lines 299-304, entered from a trigger hook
CaptureStart(trigger) ==
  /\ pc = "idle"
  /\ trigger \notin fired
  /\ fired' = fired \cup {trigger}
  /\ IF QueueIsEmpty(screenshotQueue)
       THEN /\ last' = "noop"
            /\ UNCHANGED <<pc, previewProcess, host, browser, found, k, attempts,
                           reports, iter, createBrowserResult, tot>>
       ELSE /\ previewProcess' = "running"
            /\ host' = <<>>
            /\ tot' = Bump(tot, "spawn")
            /\ browser' = "null"
            /\ createBrowserResult' = "none"
            /\ found' = screenshotQueue
            /\ k' = 0
            /\ attempts' = <<>>
            /\ reports' = <<>>
            /\ iter' = NoIter
            /\ last' = "running"
            /\ pc' = AfterSpawn
  /\ ctx' = NoCtx
  /\ hook' = NoHook
  /\ UNCHANGED <<generate, routeRules, screenshotQueue, rendered>>

\* lines 361-363
RollupBefore == CaptureStart("rollup:before")

\* lines 366-368
CloseHook == CaptureStart("close")

\* lines 308-315: the data handler sees "Accepting connections at"
ServerReady ==
  /\ pc = "wait"
  /\ previewProcess = "running"
  /\ pc' = "launch"
  /\ host' = Host
  /\ UNCHANGED <<generate, routeRules, screenshotQueue, fired, previewProcess,
                 browser, found, k, attempts, reports, iter, createBrowserResult, last, tot>>
  /\ UNCHANGED hookVars

\* the subprocess exits without that line: no handler of the promise sees it
ServerExit ==
  /\ pc = "wait"
  /\ previewProcess = "running"
  /\ previewProcess' = "exited"
  /\ UNCHANGED <<generate, routeRules, screenshotQueue, fired, pc, host,
                 browser, found, k, attempts, reports, iter, createBrowserResult, last, tot>>
  /\ UNCHANGED hookVars

\* lines 316-318 and 346-352
Launch ==
  /\ pc = "launch"
  /\ \E result \in {"session", "null", "throw"} :
       /\ createBrowserResult' = result
       /\ tot' = Bump(tot, "launch")
       /\ IF BrowserLaunched(result)
            THEN /\ browser' = IF result = "session" THEN "open" ELSE "null"
                 /\ k' = 1
                 /\ pc' = AfterKey(screenshotQueue, 0, FALSE)
            ELSE /\ browser' = "null"
                 /\ pc' = "finally"
                 /\ UNCHANGED k
  /\ UNCHANGED <<generate, routeRules, screenshotQueue, fired, previewProcess, host,
                 found, attempts, reports, iter, last>>
  /\ UNCHANGED hookVars

\* lines 319-344: one iteration of the loop
Capture ==
  /\ pc = "loop"
  /\ k \in 1..Len(screenshotQueue)
  /\ LET entry == EntryAt(screenshotQueue, k) IN
     \E shot \in {"ok", "throw"}, mkdir \in {"ok", "throw"}, write \in {"ok", "throw"} :
       /\ shot = "throw" => (mkdir = "ok" /\ write = "ok")
       /\ attempts' = Append(attempts,
            [url |-> host \o entry.path, options |-> ScreenshotOptions(entry)])
       /\ reports' = Append(reports,
            [file |-> Filename(entry), hasError |-> HasError(shot, mkdir, write)])
       /\ iter' = [screenshot |-> shot,
                   mkdirp |-> IF shot = "ok" THEN mkdir ELSE "skipped",
                   writeFile |-> IF shot = "ok" THEN write ELSE "skipped"]
       /\ pc' = AfterKey(screenshotQueue, k, HasError(shot, mkdir, write))
  /\ k' = k + 1
  /\ UNCHANGED <<generate, routeRules, screenshotQueue, fired, previewProcess, host,
                 browser, found, createBrowserResult, last, tot>>
  /\ UNCHANGED hookVars

\* lines 353-357: finally { await browser?.close(); previewProcess.kill() }
\* and, unless that threw, screenshotQueue = []
Teardown ==
  /\ pc = "finally"
  /\ \E closeOutcome \in {"ok", "throw"} :
       /\ browser = "null" => closeOutcome = "ok"
       /\ browser' = IF browser = "open" THEN "closed" ELSE browser
       /\ IF KillReached(browser, closeOutcome)
            THEN /\ previewProcess' = "killed"
                 /\ tot' = Bump(IF browser = "open" THEN Bump(tot, "close") ELSE tot, "kill")
                 /\ IF closeOutcome = "throw"
                      THEN last' = "threw" /\ UNCHANGED screenshotQueue
                      ELSE last' = "done" /\ screenshotQueue' = <<>>
            ELSE /\ tot' = Bump(tot, "close")
                 /\ last' = "threw"
                 /\ UNCHANGED <<previewProcess, screenshotQueue>>
  /\ pc' = "idle"
  /\ UNCHANGED <<generate, routeRules, fired, host, found, k, attempts, reports, iter,
                 createBrowserResult>>
  /\ UNCHANGED hookVars

(***************************************************************************)
(* The build run                                                           *)
(***************************************************************************)
\* nothing rendered, no trigger fired
NothingRunYet ==
  /\ screenshotQueue = <<>>
  /\ ctx = NoCtx
  /\ hook = NoHook
  /\ rendered = 0
  /\ fired = {}
  /\ pc = "idle"
  /\ previewProcess = "none"
  /\ host = <<>>
  /\ browser = "null"
  /\ found = <<>>
  /\ k = 0
  /\ attempts = <<>>
  /\ reports = <<>>
  /\ iter = NoIter
  /\ createBrowserResult = "none"
  /\ last = "none"
  /\ tot = [spawn |-> 0, kill |-> 0, launch |-> 0, close |-> 0]

Init ==
  /\ generate \in BOOLEAN
  /\ routeRules \in RuleTables
  /\ NothingRunYet

Next ==
  \/ Prerender
  \/ RollupBefore
  \/ CloseHook
  \/ ServerReady
  \/ ServerExit
  \/ Launch
  \/ Capture
  \/ Teardown

Spec == Init /\ [][Next]_vars

\* the event loop runs every continuation of captureScreenshots that is ready
FairSpec == Spec /\ WF_vars(ServerReady \/ Launch \/ Capture \/ Teardown)

(***************************************************************************)
(* Properties                                                              *)
(***************************************************************************)
Finishes == pc = "finally" /\ pc' = "idle"

TriggerFires == fired' # fired

HookCalled == rendered' # rendered

\* C1: a prerender:generate call on a route whose merged route rules give
\* ogImage: false appends nothing to screenshotQueue, whatever the markup holds
\* and whatever generate, static and provider are.
C1_SuppressedRouteNeverQueued ==
  [][(HookCalled /\ MergedRules(routeRules, ctx'.route).og = "false")
       => screenshotQueue' = screenshotQueue]_vars

\* a directive asking for the browser provider was extracted in a full-site
\* generate, and the route rules dropped the page
C1_Witness ==
  /\ generate
  /\ hook.outcome = "dropped"
  /\ hook.some
  /\ hook.og = "false"
  /\ FirstPayload(hook.html).opts.provider = "browser"

\* C2: every entry of screenshotQueue has provider 'browser', and the run is a
\* full-site generate or the entry's static flag is set.
C2_QueuedOnlyBrowserAndStaticOrGenerate ==
  \A i \in 1..Len(screenshotQueue) :
    /\ screenshotQueue[i].provider = "browser"
    /\ generate \/ screenshotQueue[i].static = "true"

\* outside a full-site generate an entry is queued for its static flag, and a
\* page with another provider has just been left out
C2_Witness ==
  /\ ~generate
  /\ Len(screenshotQueue) > 0
  /\ hook.outcome = "notqueued"
  /\ FirstPayload(hook.html).opts.provider = "satori"

\* C3: during a drain the queue is the one the invocation found, and the
\* screenshot calls and the report lines made so far are, in order and with
\* none left out or repeated, those of its first entries.
C3_DrainInEnqueueOrder ==
  /\ pc # "idle" => found = screenshotQueue
  /\ Len(attempts) <= Len(found)
  /\ Len(reports) = Len(attempts)
  /\ \A i \in 1..Len(attempts) :
       /\ attempts[i] = [url |-> Host \o found[i].path,
                         options |-> ScreenshotOptions(found[i])]
       /\ reports[i].file = Filename(found[i])

\* a drain of at least two entries, the first two different, has finished
C3_Witness ==
  /\ last = "done"
  /\ Len(reports) >= 2
  /\ found[1].path # found[2].path

\* C4: once the browser has launched, the loop makes one screenshot call and one
\* report line per entry whatever the entries' outcomes, and a line is marked
\* failed exactly when its own capture or write threw.
C4_FailureIsolatedPerEntry ==
  /\ (createBrowserResult = "session" /\ pc # "loop")
       => Len(attempts) = Len(found) /\ Len(reports) = Len(found)
  /\ reports # <<>>
       => reports[Len(reports)].hasError
            = (iter.screenshot = "throw" \/ iter.writeFile = "throw")

\* three entries, the second failed: [success, failure, success]
C4_Witness ==
  /\ last = "done"
  /\ Len(found) = 3
  /\ [i \in 1..Len(reports) |-> reports[i].hasError] = <<FALSE, TRUE, FALSE>>

\* C5: an invocation that spawned the server has killed it when it finishes,
\* on every exit path.
C5_ServerKilledOnEveryExit == [][Finishes => previewProcess' = "killed"]_vars

\* C6: over a build run the server is spawned and killed at most once and the
\* browser launched and closed at most once; stated for the runs in which one
\* page is rendered, where nothing can be enqueued after a drain.
C6_OnceEachPerRun ==
  rendered <= 1 =>
    /\ tot.spawn <= 1
    /\ tot.kill <= 1
    /\ tot.launch <= 1
    /\ tot.close <= 1

\* C7: a trigger that finds the queue empty spawns no server, launches no
\* browser, emits no report line and leaves the queue empty.
C7_EmptyQueueIsNoOp ==
  [][(TriggerFires /\ screenshotQueue = <<>>)
       => /\ screenshotQueue' = <<>>
          /\ pc' = "idle"
          /\ UNCHANGED <<previewProcess, browser, tot, attempts, reports>>]_vars

\* the second trigger found the queue drained by the first
C7_Witness ==
  /\ fired = {"rollup:before", "close"}
  /\ last = "noop"
  /\ tot.spawn = 1
  /\ previewProcess = "killed"

\* C8: an invocation that found a non-empty queue leaves it empty when it
\* finishes, on every exit path.
C8_QueueEmptyAfterEveryExit == [][Finishes => screenshotQueue' = <<>>]_vars

\* C9: if the server subprocess exits without the readiness line, the wait
\* fails and captureScreenshots finishes.
C9_ExitedServerLeadsToFinish ==
  (pc = "wait" /\ previewProcess = "exited") ~> (pc = "idle")

\* C10: when createBrowser gives null or throws, no screenshot call and no
\* report line is made, the invocation goes on to its teardown, and it ends
\* without an exception and with the server killed (a later trigger that finds
\* the queue empty changes none of this).
C10_LaunchFailureAbortsBatch ==
  createBrowserResult \in {"null", "throw"} =>
    /\ attempts = <<>>
    /\ reports = <<>>
    /\ pc \in {"finally", "idle"}
    /\ pc = "finally" => ENABLED Teardown
    /\ pc = "idle" => (last \in {"done", "noop"} /\ previewProcess = "killed")

\* the launch gave null with two entries queued, and the invocation is over
C10_Witness ==
  /\ createBrowserResult = "null"
  /\ pc = "idle"
  /\ Len(found) = 2

\* C11: a screenshot call is made only with the origin read from the
\* readiness line and with a browser session open, and the loop's iterations
\* spawn no server, read no new origin and launch no browser.
C11_SetupBeforeFirstCaptureOncePerBatch ==
  [][/\ attempts' # <<>> =>
          /\ \A i \in 1..Len(attempts') : StartsWith(attempts'[i].url, Host)
          /\ createBrowserResult' = "session"
     /\ Len(attempts') > Len(attempts) =>
          /\ host = Host /\ browser = "open"
          /\ UNCHANGED <<host, browser, previewProcess, tot>>]_vars

\* the second entry of a batch is captured after one spawn and one launch
C11_Witness ==
  /\ Len(attempts) = 2
  /\ tot.spawn = 1
  /\ tot.launch = 1

Malformed(html) ==
  \E i \in 1..Len(html) :
    /\ html[i].kind = "og"
    /\ ~html[i].ok
    /\ \A j \in 1..(i - 1) : html[j].kind # "og"

\* what the page of a hook call asks for, from its own markup and route alone
WantsScreenshot(route, html) ==
  LET rule == MergedRules(routeRules, route)
      directive == FirstPayload(html).opts
      Effective(key) ==
        IF rule.og = "frag" /\ rule.frag[key] # "undef"
          THEN rule.frag[key] ELSE directive[key]
  IN  /\ ~Includes(route, ".")
      /\ ~EndsWith(route, OgImageHtmlSuffix)
      /\ HasPayload(html)
      /\ ~Malformed(html)
      /\ rule.og # "false"
      /\ Effective("provider") = "browser"
      /\ generate \/ Effective("static") = "true"

\* C12: a hook call on a scanned page with a malformed payload ends in the
\* error and leaves the queue and the page's markup as they were; and every
\* hook call keeps the entries already queued and appends its own page exactly
\* when that page's markup and route ask for it, whatever was rendered before.
C12_ParseErrorTouchesOnlyItsPage ==
  [][HookCalled =>
       /\ (Malformed(hook'.html) /\ ~Includes(ctx'.route, ".")
             /\ ~EndsWith(ctx'.route, OgImageHtmlSuffix))
            => /\ hook'.outcome = "threw"
               /\ screenshotQueue' = screenshotQueue
               /\ ctx'.contents = hook'.html
       /\ hook'.outcome = "threw" => Malformed(hook'.html)
       /\ SubSeq(screenshotQueue', 1, Len(screenshotQueue)) = screenshotQueue
       /\ IF WantsScreenshot(ctx'.route, hook'.html)
            THEN /\ Len(screenshotQueue') = Len(screenshotQueue) + 1
                 /\ screenshotQueue'[Len(screenshotQueue')].path = ctx'.route
            ELSE screenshotQueue' = screenshotQueue]_vars

\* a malformed page has just thrown, after another page was queued
C12_Witness ==
  /\ hook.outcome = "threw"
  /\ Len(screenshotQueue) >= 1

\* C13: a hook call on a page whose markup holds no directive, on a route
\* whose matching rules give no ogImage override, appends nothing and leaves
\* ctx.contents equal to the markup it was called with.
C13_NoDirectiveNoRuleIsUntouched ==
  [][(HookCalled /\ ~HasPayload(hook'.html)
        /\ \A i \in 1..Len(PatternOrder) :
             PatternMatches(PatternOrder[i], ctx'.route)
               => routeRules[PatternOrder[i]].og = "absent")
       => /\ screenshotQueue' = screenshotQueue
          /\ ctx'.contents = hook'.html]_vars

\* such a page, with markup, has been scanned in a full-site generate
C13_Witness ==
  /\ generate
  /\ hook.outcome = "dropped"
  /\ ~hook.some
  /\ hook.og = "absent"
  /\ ctx.contents = <<Text("p")>>
  /\ routeRules = Rules(NoOg, NoOg, NoOg)

\* the first defined value, highest precedence first
FirstDefined(values) ==
  IF \E i \in 1..Len(values) : values[i] # "undef"
    THEN values[CHOOSE i \in 1..Len(values) :
                  /\ values[i] # "undef"
                  /\ \A j \in 1..(i - 1) : values[j] = "undef"]
    ELSE "undef"

\* C14: for every option field, the entry a hook call queues holds the route
\* rule override's value if the override defines the field and else the
\* directive's, and the screenshot call of an entry is given the entry's value
\* if it has one and else the site-wide default's.
C14_RuleOverDirectiveOverDefaults ==
  [][/\ (HookCalled /\ hook'.outcome = "queued") =>
          LET rule == MergedRules(routeRules, ctx'.route)
              override == IF rule.og = "frag" THEN rule.frag ELSE EmptyFrag
              directive == FirstPayload(hook'.html).opts
              entry == screenshotQueue'[Len(screenshotQueue')]
          IN  \A key \in Keys :
                entry[key] = FirstDefined(<<override[key], directive[key]>>)
     /\ Len(attempts') > Len(attempts) =>
          LET entry == screenshotQueue[Len(attempts')]
              call == attempts'[Len(attempts')]
          IN  \A key \in Keys :
                call.options[key] = FirstDefined(<<entry[key], Defaults[key]>>)]_vars

\* the rule's provider replaced the directive's and the directive's static
\* flag was kept, in the entry just queued
C14_Witness ==
  /\ hook.outcome = "queued"
  /\ FirstPayload(hook.html).opts.provider = "satori"
  /\ screenshotQueue[Len(screenshotQueue)].provider = "browser"
  /\ screenshotQueue[Len(screenshotQueue)].static = "true"
  /\ screenshotQueue[Len(screenshotQueue)].width = "undef"

(***************************************************************************)
(* The route rule resolution of line 280 on its own, over every table of   *)
(* three rules                                                             *)
(***************************************************************************)
AllRuleValues ==
  { NoOg, OgFalse,
    OgFrag(Frag("browser", "undef", "undef")),
    OgFrag(Frag("undef", "true", "w600")),
    OgFrag(Frag("satori", "undef", "w900")) }

RulesInit ==
  /\ generate = FALSE
  /\ routeRules \in [Patterns -> AllRuleValues]
  /\ NothingRunYet

\* line 280 for one route: the merged rule is kept in hook
ResolveRouteRules ==
  \E route \in Routes :
    LET rule == MergedRules(routeRules, route) IN
    /\ ctx' = [NoCtx EXCEPT !.route = route]
    /\ hook' = [outcome |-> "resolved", html |-> <<>>, some |-> FALSE,
                og |-> rule.og, frag |-> rule.frag,
                dropped |-> Dropped([some |-> TRUE, opts |-> EmptyFrag], rule)]
    /\ UNCHANGED <<generate, routeRules, screenshotQueue, rendered, fired>>
    /\ UNCHANGED captureVars

RulesSpec == RulesInit /\ [][ResolveRouteRules]_vars

\* the most specific of the matches at the indices in S (the last of a
\* general-first list), or 0 when there is none
MostSpecific(S) ==
  IF S = {} THEN 0 ELSE CHOOSE i \in S : \A j \in S : j <= i

\* C15: the merged rule of a route is an override exactly when the most
\* specific matching rule that sets ogImage sets an object, and then each
\* field holds the value of the most specific matching rule that defines it;
\* it is the suppression exactly when the merged ogImage is false, that is
\* when the most specific matching rule that sets ogImage sets false.
C15_MostSpecificRuleWins ==
  hook.outcome = "resolved" =>
    LET matches == matchAll(routeRules, ctx.route)
        top == MostSpecific({i \in 1..Len(matches) : matches[i].og # "absent"})
    IN  /\ hook.og = IF top = 0 THEN "absent" ELSE matches[top].og
        /\ hook.dropped <=> (hook.og = "false")
        /\ hook.og = "frag" =>
             \A key \in Keys :
               LET from == MostSpecific({i \in 1..Len(matches) :
                            matches[i].og = "frag" /\ matches[i].frag[key] # "undef"})
               IN  hook.frag[key] =
                     IF from = 0 THEN "undef" ELSE matches[from].frag[key]

\* "/a/b" under three rules: the specific rule's width replaces the general
\* one's, and the general rule's static flag is kept
C15_Witness ==
  /\ hook.outcome = "resolved"
  /\ ctx.route = RouteAB
  /\ routeRules = Rules(OgFrag(Frag("undef", "true", "w600")), OgFalse,
                        OgFrag(Frag("satori", "undef", "w900")))
  /\ hook.frag = Frag("satori", "true", "w900")

\* C17: a hook call for a route that contains a '.', for the og:image html
\* route, or with empty markup changes neither ctx.contents nor the queue, and
\* it returns: it does not throw.
C17_SkippedPagesAreUntouched ==
  [][(HookCalled /\ (\/ Includes(ctx'.route, ".")
                     \/ EndsWith(ctx'.route, OgImageHtmlSuffix)
                     \/ hook'.html = <<>>))
       => /\ ctx'.contents = hook'.html
          /\ screenshotQueue' = screenshotQueue
          /\ hook'.outcome \in {"skipped", "nohtml"}]_vars

\* the og:image html route was rendered with a payload in its markup, which
\* stayed there
C17_Witness ==
  /\ ctx.route = RouteOgHtml
  /\ HasPayload(ctx.contents)
  /\ hook.outcome = "skipped"

\* C18: when mkdirp throws, writeFile is still called, and the report line of
\* the entry is marked failed exactly when the screenshot or the write threw,
\* whatever mkdirp did.
C18_MkdirpFailureAbsorbed ==
  /\ iter.mkdirp = "throw" => iter.writeFile \in {"ok", "throw"}
  /\ iter.screenshot # "none" =>
       /\ reports # <<>>
       /\ reports[Len(reports)].hasError
            <=> (iter.screenshot = "throw" \/ iter.writeFile = "throw")

\* mkdirp threw, the write went through, and the line is not marked failed
C18_Witness ==
  /\ iter.mkdirp = "throw"
  /\ iter.writeFile = "ok"
  /\ ~reports[Len(reports)].hasError

\* C20: a hook call on a page whose markup holds no directive appends nothing
\* to the queue, whatever the route rules give.
C20_NoDirectiveNeverQueued ==
  [][(HookCalled /\ ~HasPayload(hook'.html))
       => screenshotQueue' = screenshotQueue]_vars

\* a page with markup and no directive was dropped although its route rules
\* give provider 'browser' and static true
C20_Witness ==
  /\ hook.outcome = "dropped"
  /\ ~hook.some
  /\ hook.html # <<>>
  /\ hook.og = "frag"
  /\ MergedRules(routeRules, ctx.route).frag.provider = "browser"
  /\ MergedRules(routeRules, ctx.route).frag.static = "true"

\* C19: the report of an entry whose file name ends in 'index.html' names
\* <publicDir>/<file name without that trailing 'index.html'>__og_image__/og.png,
\* and entries with different file names get different files.
C19_OutputPathFromFileName ==
  \A i \in 1..Len(reports) :
    LET name == found[i].ctx.fileName IN
    /\ EndsWith(name, IndexHtml) =>
         reports[i].file =
           PublicDir \o SubSeq(name, 1, Len(name) - Len(IndexHtml))
             \o <<"__og_image__", "/", "og.png">>
    /\ \A j \in 1..Len(reports) :
         name # found[j].ctx.fileName => reports[i].file # reports[j].file

\* two entries with different file names have been captured
C19_Witness ==
  /\ Len(reports) >= 2
  /\ found[1].ctx.fileName # found[2].ctx.fileName
  /\ EndsWith(found[1].ctx.fileName, IndexHtml)

====
